---- MODULE Spec2Model ----
(***************************************************************************)
(* A model of mymoneymap.py, a Streamlit dashboard.  Every user            *)
(* interaction re-runs the script from top to bottom (one "pass") for the  *)
(* session that interacted.  What survives between passes is the cached    *)
(* result of load_data, each session's widget values and each session's    *)
(* session_state.                                                          *)
(*                                                                         *)
(* Text is modelled as a sequence of one-character strings, so lower(),    *)
(* substring containment and the state regex are computed on characters.   *)
(* Numbers that the script handles as floats are modelled as exact         *)
(* fractions [num, den]; NaN is a value of its own.                        *)
(***************************************************************************)
EXTENDS Integers, Sequences, FiniteSets, TLC

VARIABLES
    loaded,         \* the value load_data returned (cached): [ok, df, cfpb_df]
    widgets,        \* per session: the widget values, or Closed
    session_state,  \* per session: session_state.feedback (Absent or a list)
    view,           \* per session: what the last pass produced
    submissions,    \* per session: the feedback records its user has sent
    raw,            \* the string handed to a string function on its own
    out             \* the results of that function, in order of application

vars == <<loaded, widgets, session_state, view, submissions, raw, out>>

--------------------------------------------------------------------------
(* Bounds of the model. *)

MaxStrLen == 3
MaxRows == 3
MaxComplaintRows == 2
MaxFeedback == 2
MaxAmount == 10

--------------------------------------------------------------------------
(* Characters and strings. *)

UpperCase == <<"A","B","C","D","E","F","G","H","I","J","K","L","M",
               "N","O","P","Q","R","S","T","U","V","W","X","Y","Z">>
LowerCase == <<"a","b","c","d","e","f","g","h","i","j","k","l","m",
               "n","o","p","q","r","s","t","u","v","w","x","y","z">>

IsUpper(c) == \E i \in 1..Len(UpperCase) : UpperCase[i] = c
IsLower(c) == \E i \in 1..Len(LowerCase) : LowerCase[i] = c
\* [A-Za-z]
IsLetter(c) == IsUpper(c) \/ IsLower(c)
\* \s
IsSpace(c) == c \in {" ", "\t", "\n"}

\* str.lower()
LowerChar(c) ==
    IF IsUpper(c)
    THEN LowerCase[CHOOSE i \in 1..Len(UpperCase) : UpperCase[i] = c]
    ELSE c
Lower(s) == [i \in 1..Len(s) |-> LowerChar(s[i])]

\* needle in hay
Contains(needle, hay) ==
    \E i \in 0..(Len(hay) - Len(needle)) :
        SubSeq(hay, i + 1, i + Len(needle)) = needle

\* All strings over an alphabet, up to a length.
RECURSIVE StringsUpTo(_, _)
StringsUpTo(alphabet, n) ==
    IF n = 0 THEN {<<>>}
    ELSE LET shorter == StringsUpTo(alphabet, n - 1)
         IN shorter \cup {Append(s, c) : s \in shorter, c \in alphabet}

--------------------------------------------------------------------------
(* shorten_category_name: the 7-entry table and the lookup. *)

mapping == <<
    << <<"B","a","n","k"," ","a","c","c","o","u","n","t"," ","o","r"," ","s","e","r","v","i","c","e">>,
       <<"B","a","n","k"," ","A","c","c","o","u","n","t">> >>,
    << <<"C","h","e","c","k","i","n","g"," ","o","r"," ","s","a","v","i","n","g","s"," ","a","c","c","o","u","n","t">>,
       <<"C","h","e","c","k","i","n","g","/","S","a","v","i","n","g","s">> >>,
    << <<"C","r","e","d","i","t"," ","c","a","r","d">>,
       <<"C","r","e","d","i","t"," ","C","a","r","d">> >>,
    << <<"C","r","e","d","i","t"," ","c","a","r","d"," ","o","r"," ","p","r","e","p","a","i","d"," ","c","a","r","d">>,
       <<"C","r","e","d","i","t","/","P","r","e","p","a","i","d">> >>,
    << <<"C","r","e","d","i","t"," ","r","e","p","o","r","t","i","n","g">>,
       <<"C","r","e","d","i","t"," ","R","e","p","o","r","t">> >>,
    << <<"D","e","b","t"," ","c","o","l","l","e","c","t","i","o","n">>,
       <<"D","e","b","t"," ","C","o","l","l","e","c","t","i","o","n">> >>,
    << <<"M","o","r","t","g","a","g","e">>,
       <<"M","o","r","t","g","a","g","e">> >> >>

\* A lookup that also strips the string it falls back to.
RECURSIVE LStrip(_)
LStrip(s) == IF s # <<>> /\ IsSpace(Head(s)) THEN LStrip(Tail(s)) ELSE s
RECURSIVE RStrip(_)
RStrip(s) ==
    IF s # <<>> /\ IsSpace(s[Len(s)]) THEN RStrip(SubSeq(s, 1, Len(s) - 1)) ELSE s
Strip(s) == RStrip(LStrip(s))

shorten_category_name_stripping(name) ==
    LET hits == {i \in 1..Len(mapping) : mapping[i][1] = name}
    IN IF hits = {} THEN Strip(name) ELSE mapping[CHOOSE i \in hits : TRUE][2]

\* mapping.get(name, name)
shorten_category_name(name) ==
    LET hits == {i \in 1..Len(mapping) : mapping[i][1] = name}
    IN IF hits = {} THEN name ELSE mapping[CHOOSE i \in hits : TRUE][2]

--------------------------------------------------------------------------
(* df["county"].str.extract(r",\s*([A-Za-z\s]+)$"): the state of a county. *)

\* The value pandas gives a row the pattern does not match.
NaN == <<"NaN">>

\* The pattern matches s from the comma at i with \s* taking j characters:
\* the j characters are whitespace, and what is left up to the end of the
\* string is one or more characters of [A-Za-z\s].  ($ also matches just
\* before a final newline, but the class holds the newline, so the greedy
\* group always reaches the end of the string.)
MatchesAt(s, i, j) ==
    /\ s[i] = ","
    /\ i + j + 1 <= Len(s)
    /\ \A k \in (i + 1)..(i + j) : IsSpace(s[k])
    /\ \A k \in (i + j + 1)..Len(s) : IsLetter(s[k]) \/ IsSpace(s[k])

\* re.search: the leftmost position that matches; \s* is greedy, so it takes
\* the most characters that still let the rest match.
ExtractState(s) ==
    LET starts == {i \in 1..Len(s) : \E j \in 0..Len(s) : MatchesAt(s, i, j)}
    IN IF starts = {} THEN NaN
       ELSE LET i == CHOOSE a \in starts : \A b \in starts : a <= b
                js == {j \in 0..Len(s) : MatchesAt(s, i, j)}
                j == CHOOSE a \in js : \A b \in js : a >= b
            IN SubSeq(s, i + j + 1, Len(s))

--------------------------------------------------------------------------
(* Tables and the operations pandas supplies. *)

\* The "All" entry the county selectbox puts before the county names.
All == <<"A","l","l">>

\* A comparison of object values where either may be NaN: NaN is unequal
\* to everything, itself included.
EqState(a, b) == a # NaN /\ b # NaN /\ a = b
NeState(a, b) == ~EqState(a, b)

\* sort_values on one integer key.  The arrays are far below the size at
\* which numpy's sort stops being an insertion sort, so equal keys keep
\* their order.
\* keys[i] is the key of rows[i].
SortValues(rows, keys) ==
    LET n == Len(rows)
        Pos(i) == 1 + Cardinality({j \in 1..n :
                        \/ keys[j] < keys[i]
                        \/ keys[j] = keys[i] /\ j < i})
    IN [p \in 1..n |-> rows[CHOOSE i \in 1..n : Pos(i) = p]]

\* DataFrame.head(n)
HeadRows(rows, n) == SubSeq(rows, 1, IF Len(rows) < n THEN Len(rows) ELSE n)

\* Series.max() of the numbers of a column of a non-empty table.
MaxOf(values) == CHOOSE m \in values : \A v \in values : v <= m

\* The columns as the sets of their values.
ComplaintCounts(rows) == {rows[i].complaint_count : i \in 1..Len(rows)}
MedianIncomes(rows) == {rows[i].median_income : i \in 1..Len(rows)}
TotalComplaints(rows) == {rows[i].total_complaints : i \in 1..Len(rows)}

\* cfpb_df["Product"] = cfpb_df["Product"].apply(shorten_category_name)
NormalizeProducts(cfpb_df) ==
    [i \in 1..Len(cfpb_df) |->
        [county |-> cfpb_df[i].county,
         Product |-> shorten_category_name(cfpb_df[i].Product),
         complaint_count |-> cfpb_df[i].complaint_count]]

\* df["state"] = df["county"].str.extract(...)
WithState(df) ==
    [i \in 1..Len(df) |->
        [county |-> df[i].county,
         median_income |-> df[i].median_income,
         total_complaints |-> df[i].total_complaints,
         state |-> ExtractState(df[i].county)]]

\* df[df["county"] == county]
RowsOfCounty(rows, county) ==
    LET IsCounty(r) == r.county = county
    IN SelectSeq(rows, IsCounty)

NotShown == [msg |-> "not_shown"]

--------------------------------------------------------------------------
(* Income vs. Complaints Correlation: the rows the scatter chart shows. *)

filtered_df(df, income_range) ==
    LET InRange(r) == /\ r.median_income >= income_range[1]
                      /\ r.median_income <= income_range[2]
    IN SelectSeq(df, InRange)

--------------------------------------------------------------------------
(* Localized Complaint Drill-Down. *)

debt_collection == <<"d","e","b","t"," ","c","o","l","l","e","c","t","i","o","n">>
mortgage == <<"m","o","r","t","g","a","g","e">>
credit_card == <<"c","r","e","d","i","t"," ","c","a","r","d">>
checking == <<"c","h","e","c","k","i","n","g">>
credit_report == <<"c","r","e","d","i","t"," ","r","e","p","o","r","t">>

\* The last row holding the maximum, where idxmax gives the first.
top_category_last_max(county_complaints) ==
    LET n == Len(county_complaints)
        best == MaxOf(ComplaintCounts(county_complaints))
        idx == CHOOSE i \in 1..n :
                    /\ county_complaints[i].complaint_count = best
                    /\ \A j \in (i + 1)..n : county_complaints[j].complaint_count # best
    IN county_complaints[idx].Product

\* county_complaints.loc[county_complaints["complaint_count"].idxmax(), "Product"]:
\* idxmax gives the first row holding the maximum.
top_category(county_complaints) ==
    LET n == Len(county_complaints)
        best == MaxOf(ComplaintCounts(county_complaints))
        idxmax == CHOOSE i \in 1..n :
                    /\ county_complaints[i].complaint_count = best
                    /\ \A j \in 1..(i - 1) : county_complaints[j].complaint_count # best
    IN county_complaints[idxmax].Product

\* The if/elif chain on top_category.lower(); about is the text the generic
\* tip puts in its sentence.
TipFor(low) ==
    IF Contains(debt_collection, low) THEN [advice |-> "credit_counselor", about |-> <<>>]
    ELSE IF Contains(mortgage, low) THEN [advice |-> "mortgage_relief", about |-> <<>>]
    ELSE IF Contains(credit_card, low) THEN [advice |-> "review_statements", about |-> <<>>]
    ELSE IF Contains(checking, low) THEN [advice |-> "compare_fees", about |-> <<>>]
    ELSE IF Contains(credit_report, low) THEN [advice |-> "check_credit_report", about |-> <<>>]
    ELSE [advice |-> "financial_education", about |-> low]

Tip(category) == TipFor(Lower(category))

CategoriesReport(complaints, county_complaints, top) ==
    [msg |-> "categories",
     complaints |-> complaints,
     top_category |-> top,
     tip |-> Tip(top),
     csv |-> county_complaints]

DrillDownOf(selected_county, county_complaints) ==
    IF county_complaints # <<>>
    THEN CategoriesReport(selected_county[1].total_complaints, county_complaints,
                          top_category(county_complaints))
    ELSE [msg |-> "no_category_data",
          complaints |-> selected_county[1].total_complaints]

\* df is the county table, cfpb_df the complaint table with its Product
\* column already shortened.  The browser.userAgent option only chooses the
\* chart's layout; it is taken to be readable.
DrillDown(df, cfpb_df, county) ==
    IF county # All
    THEN IF RowsOfCounty(df, county) # <<>>
         THEN DrillDownOf(RowsOfCounty(df, county), RowsOfCounty(cfpb_df, county))
         ELSE [msg |-> "select_a_county"]
    ELSE [msg |-> "select_a_county"]

--------------------------------------------------------------------------
(* Find Your Financial Peers. *)

\* selected_income * 0.95 and * 1.05, in hundredths.
BandLowPct == 95
BandHighPct == 105
\* peers_df[...].head(5)
PeerRows == 5

PeerColumns(rows) ==
    [i \in 1..Len(rows) |->
        [county |-> rows[i].county,
         median_income |-> rows[i].median_income,
         total_complaints |-> rows[i].total_complaints]]

PeersReport(peers_df) ==
    IF peers_df # <<>>
    THEN [msg |-> "peers",
          table |-> HeadRows(PeerColumns(peers_df), PeerRows),
          csv |-> peers_df]
    ELSE [msg |-> "no_peers"]

\* sort_values("median_income")
SortByIncome(rows) ==
    SortValues(rows, [i \in 1..Len(rows) |-> rows[i].median_income])

\* df[(income >= income_min) & (income <= income_max)
\*    & (df["state"] != selected_state)].sort_values("median_income")
PeersDf(df, selected_income, selected_state) ==
    SortByIncome(SelectSeq(df, LAMBDA r :
                    /\ 100 * r.median_income >= BandLowPct * selected_income
                    /\ 100 * r.median_income <= BandHighPct * selected_income
                    /\ NeState(r.state, selected_state)))

PeersOf(df, selected_county) ==
    PeersReport(PeersDf(df, selected_county[1].median_income, selected_county[1].state))

\* df carries the state column.
FindPeers(df, county) ==
    IF county # All
    THEN IF RowsOfCounty(df, county) # <<>>
         THEN PeersOf(df, RowsOfCounty(df, county))
         ELSE [msg |-> "no_data"]
    ELSE [msg |-> "select_a_county"]

--------------------------------------------------------------------------
(* Vulnerability Ranking Score. *)

\* state_df[...].head(10)
RankRows == 10

NaNScore == [nan |-> TRUE, num |-> 0, den |-> 1]

\* total_complaints / max * 0.5 + (1 - median_income / max) * 0.5, as a
\* fraction over 2 * max complaints * max income.  A maximum of 0 makes the
\* division 0 / 0, which pandas evaluates to NaN without raising.
distress_score(df, r) ==
    LET cmax == MaxOf(TotalComplaints(df))
        mmax == MaxOf(MedianIncomes(df))
    IN IF cmax = 0 \/ mmax = 0
       THEN NaNScore
       ELSE [nan |-> FALSE,
             num |-> r.total_complaints * mmax + (mmax - r.median_income) * cmax,
             den |-> 2 * cmax * mmax]

WithScore(df) ==
    [i \in 1..Len(df) |->
        [county |-> df[i].county,
         median_income |-> df[i].median_income,
         total_complaints |-> df[i].total_complaints,
         state |-> df[i].state,
         distress_score |-> distress_score(df, df[i])]]

\* Series.rank(ascending=False), method "average": the mean of the places
\* the equal scores take, as a fraction over 2; NaN stays NaN.
RankOf(rows, r) ==
    IF r.distress_score.nan
    THEN [nan |-> TRUE, num |-> 0, den |-> 2]
    ELSE LET above == {j \in 1..Len(rows) :
                          rows[j].distress_score.num > r.distress_score.num}
             level == {j \in 1..Len(rows) :
                          rows[j].distress_score.num = r.distress_score.num}
         IN [nan |-> FALSE,
             num |-> 2 * Cardinality(above) + Cardinality(level) + 1,
             den |-> 2]

WithRank(rows) ==
    [i \in 1..Len(rows) |->
        [county |-> rows[i].county,
         median_income |-> rows[i].median_income,
         total_complaints |-> rows[i].total_complaints,
         distress_score |-> rows[i].distress_score,
         rank |-> RankOf(rows, rows[i])]]

\* selected_rank and selected_score are read from own, the selected
\* county's rows of state_df, with .iloc[0]: that raises IndexError on no
\* row, and int(selected_rank) raises ValueError on NaN.  raised names the
\* exception that ends the pass, "none" when the section runs to its end.
RankingReport(scored, state, state_df, own) ==
    IF own = <<>>
    THEN [msg |-> "raised", raised |-> "IndexError", scores |-> scored]
    ELSE IF own[1].rank.nan
    THEN [msg |-> "raised", raised |-> "ValueError", scores |-> scored]
    ELSE [msg |-> "rank",
          raised |-> "none",
          scores |-> scored,
          selected_score |-> own[1].distress_score,
          selected_rank |-> own[1].rank.num \div own[1].rank.den,
          state |-> state,
          table |-> HeadRows(state_df, RankRows)]

\* sort_values("distress_score", ascending=False); the scores of one table
\* share their denominator.
SortByScore(rows) ==
    SortValues(rows, [i \in 1..Len(rows) |-> 0 - rows[i].distress_score.num])

\* state_df = df[df["state"] == state].sort_values("distress_score", ascending=False)
\* state_df["rank"] = state_df["distress_score"].rank(ascending=False)
StateDf(scored, state) ==
    WithRank(SortByScore(SelectSeq(scored, LAMBDA r : EqState(r.state, state))))

RankingOfState(scored, county, state, state_df) ==
    RankingReport(scored, state, state_df, RowsOfCounty(state_df, county))

RankingOfCounty(scored, county, state) ==
    RankingOfState(scored, county, state, StateDf(scored, state))

\* df carries the state column.
Ranking(df, county) ==
    IF county # All
    THEN IF RowsOfCounty(df, county) # <<>>
         THEN RankingOfCounty(WithScore(df), county, RowsOfCounty(df, county)[1].state)
         ELSE [msg |-> "no_data", raised |-> "none"]
    ELSE [msg |-> "select_a_county", raised |-> "none"]

--------------------------------------------------------------------------
(* Savings Goal Tracker.  Amounts are whole dollars. *)

\* The quotient without the cap at 1.0.
progress_uncapped(goal, saved) ==
    IF goal > 0 THEN [num |-> saved, den |-> goal] ELSE [num |-> 0, den |-> 1]

\* min(saved / goal, 1.0) if goal > 0 else 0.0
progress(goal, saved) ==
    IF goal > 0
    THEN IF saved < goal THEN [num |-> saved, den |-> goal] ELSE [num |-> 1, den |-> 1]
    ELSE [num |-> 0, den |-> 1]

\* f"{progress * 100:.1f}": tenths of a percent, rounded to nearest (ties to even).
Tenths(p) ==
    LET q == (1000 * p.num) \div p.den
        r2 == 2 * ((1000 * p.num) % p.den)
    IN IF r2 > p.den \/ (r2 = p.den /\ q % 2 = 1) THEN q + 1 ELSE q

SavingsReport(goal, saved, p) ==
    [msg |-> "progress",
     progress |-> p,
     text_tenths |-> Tenths(p),
     congratulations |-> (saved >= goal /\ goal > 0)]

SavingsGoal(goal, saved) == SavingsReport(goal, saved, progress(goal, saved))

--------------------------------------------------------------------------
(* One pass of the script. *)

Sessions == {"s1", "s2"}

\* What load_data returns when the download or the queries raise.
LoadFailure == [ok |-> FALSE, df |-> <<>>, cfpb_df |-> <<>>]
LoadResult(df, cfpb_df) == [ok |-> TRUE, df |-> df, cfpb_df |-> cfpb_df]

Closed == [open |-> FALSE]
NoFeedback == [has_feedback |-> FALSE, feedback |-> <<>>]
NoView == [panels |-> <<>>]
NoSubmit == [submitted |-> FALSE]

\* The widgets as a first pass creates them: "All", the full income range,
\* goal 5000.0 and saved 1000.0.
DefaultWidgets(data) ==
    [open |-> TRUE,
     county |-> All,
     income_range |-> IF data.df = <<>> THEN <<0, 0>>
                      ELSE <<0, MaxOf(MedianIncomes(data.df))>>,
     goal |-> 5000,
     saved |-> 1000]

\* options=["All"] + list(df["county"].unique())
CountyOptions(data) == {All} \cup {data.df[i].county : i \in 1..Len(data.df)}

\* The sections from the scatter chart to the savings tracker, given what
\* the ranking section came to.  An exception there ends the pass.
Sections(df, cfpb_df, w, ranking) ==
    [scatter |-> filtered_df(df, w.income_range),
     drill |-> DrillDown(df, cfpb_df, w.county),
     peers |-> FindPeers(df, w.county),
     ranking |-> ranking,
     raised |-> ranking.raised,
     savings |-> IF ranking.raised = "none" THEN SavingsGoal(w.goal, w.saved)
                 ELSE NotShown]

SectionsOf(df, cfpb_df, w) == Sections(df, cfpb_df, w, Ranking(df, w.county))

\* if not cfpb_df.empty: shorten the products; if not df.empty: the sections
MainApp(data, w) ==
    SectionsOf(WithState(data.df),
               IF data.cfpb_df # <<>> THEN NormalizeProducts(data.cfpb_df)
               ELSE data.cfpb_df,
               w)

\* The record the form appends.
FeedbackData(submit) ==
    [Name |-> submit.form.Name, Email |-> submit.form.Email,
     Role |-> submit.form.Role, Helpful |-> submit.form.Helpful,
     Comment |-> submit.form.Comment, Timestamp |-> submit.now]

\* A submission that starts the list over.
StoreFeedback_restarting(ss, feedback_data) ==
    [has_feedback |-> TRUE, feedback |-> <<feedback_data>>]

\* if "feedback" not in session_state: session_state.feedback = []
\* session_state.feedback.append(feedback_data)
StoreFeedback(ss, feedback_data) ==
    [has_feedback |-> TRUE,
     feedback |-> Append(IF ss.has_feedback THEN ss.feedback ELSE <<>>, feedback_data)]

\* What the page shows, section by section, in the order the script
\* writes it; reached says the script got as far as the feedback form.
Panels(data, submit, reached, listed) ==
    <<"title", IF data.ok THEN "load_success" ELSE "load_error">>
    \o (IF data.df # <<>>
        THEN <<"filters", "scatter", "drill_down", "peers", "ranking">>
             \o (IF reached THEN <<"savings", "budget", "spending">> ELSE <<>>)
        ELSE <<>>)
    \o (IF reached
        THEN <<"feedback_form">>
             \o (IF submit.submitted THEN <<"feedback_thanks">> ELSE <<>>)
             \o (IF listed THEN <<"feedback_list">> ELSE <<>>)
             \o <<"footer">>
        ELSE <<>>)

\* if "feedback" in session_state and session_state.feedback: list it
Page(data, submit, main, stored) ==
    LET reached == main.raised = "none"
        listed == reached /\ stored.has_feedback /\ stored.feedback # <<>>
    IN [view |-> [panels |-> Panels(data, submit, reached, listed),
                  raised |-> main.raised,
                  scatter |-> main.scatter,
                  drill |-> main.drill,
                  peers |-> main.peers,
                  ranking |-> main.ranking,
                  savings |-> main.savings,
                  feedback_list |-> IF listed THEN stored.feedback ELSE <<>>],
        session_state |-> stored]

\* The feedback form, reached only if nothing raised before it.
FeedbackForm(data, ss, submit, main) ==
    Page(data, submit, main,
         IF main.raised = "none" /\ submit.submitted
         THEN StoreFeedback(ss, FeedbackData(submit))
         ELSE ss)

\* The whole script for one session: data is what load_data returned, w the
\* session's widget values, ss its session_state, submit whether this pass
\* was started by the form's button.  Gives the page and the session_state
\* the pass leaves.
RunScript(data, w, ss, submit) ==
    FeedbackForm(data, ss, submit,
                 IF data.df # <<>> THEN MainApp(data, w)
                 ELSE [scatter |-> <<>>, drill |-> NotShown, peers |-> NotShown,
                       ranking |-> NotShown, raised |-> "none", savings |-> NotShown])

Shows(v, panel) == \E i \in 1..Len(v.panels) : v.panels[i] = panel

--------------------------------------------------------------------------
(* The interactions.  Each one changes what it names and runs the script. *)

Pass(s, w, submit) ==
    LET result == RunScript(loaded, w, session_state[s], submit)
    IN /\ widgets' = [widgets EXCEPT ![s] = w]
       /\ view' = [view EXCEPT ![s] = result.view]
       /\ session_state' = [session_state EXCEPT ![s] = result.session_state]

\* A browser opens the page: a new session, its first pass.
OpenSession(s) ==
    /\ ~widgets[s].open
    /\ Pass(s, DefaultWidgets(loaded), NoSubmit)
    /\ UNCHANGED <<loaded, submissions, raw, out>>

\* The browser goes away; the session and its session_state are dropped.
CloseSession(s) ==
    /\ widgets[s].open
    /\ widgets' = [widgets EXCEPT ![s] = Closed]
    /\ view' = [view EXCEPT ![s] = NoView]
    /\ session_state' = [session_state EXCEPT ![s] = NoFeedback]
    /\ submissions' = [submissions EXCEPT ![s] = <<>>]
    /\ UNCHANGED <<loaded, raw, out>>

SelectCounty(s, county) ==
    /\ widgets[s].open
    /\ Shows(view[s], "filters")
    /\ county \in CountyOptions(loaded)
    /\ Pass(s, [widgets[s] EXCEPT !.county = county], NoSubmit)
    /\ UNCHANGED <<loaded, submissions, raw, out>>

SetIncomeRange(s, income_range) ==
    /\ widgets[s].open
    /\ Shows(view[s], "filters")
    /\ Pass(s, [widgets[s] EXCEPT !.income_range = income_range], NoSubmit)
    /\ UNCHANGED <<loaded, submissions, raw, out>>

SetGoal(s, goal) ==
    /\ widgets[s].open
    /\ Shows(view[s], "savings")
    /\ Pass(s, [widgets[s] EXCEPT !.goal = goal], NoSubmit)
    /\ UNCHANGED <<loaded, submissions, raw, out>>

SetSaved(s, saved) ==
    /\ widgets[s].open
    /\ Shows(view[s], "savings")
    /\ Pass(s, [widgets[s] EXCEPT !.saved = saved], NoSubmit)
    /\ UNCHANGED <<loaded, submissions, raw, out>>

\* The form's button; submissions keeps what the user of s has sent.
SubmitFeedback(s, form, now) ==
    /\ widgets[s].open
    /\ Shows(view[s], "feedback_form")
    /\ Len(submissions[s]) < MaxFeedback
    /\ Pass(s, widgets[s], [submitted |-> TRUE, form |-> form, now |-> now])
    /\ submissions' = [submissions EXCEPT ![s] =
          Append(@, FeedbackData([form |-> form, now |-> now]))]
    /\ UNCHANGED <<loaded, raw, out>>

--------------------------------------------------------------------------
(* The tables a run starts from. *)

CountyAX == <<"A", ",", " ", "X">>
CountyBX == <<"B", ",", " ", "X">>
CountyCY == <<"C", ",", " ", "Y">>
CountyD == <<"D">>
CountyNames == <<CountyAX, CountyBX, CountyCY, CountyD>>

Incomes == {0, 95, 100, 105}
Complaints == {0, 2}

\* The county tables of at most n rows, one row per county name, whose
\* names are taken from the k-th on.
RECURSIVE TablesFrom(_, _)
TablesFrom(k, n) ==
    IF n = 0 \/ k > Len(CountyNames) THEN {<<>>}
    ELSE TablesFrom(k + 1, n)
         \cup {<<[county |-> CountyNames[k], median_income |-> m,
                  total_complaints |-> c]>> \o t :
                   m \in Incomes, c \in Complaints, t \in TablesFrom(k + 1, n - 1)}

ComplaintRowsOf(counties, products, counts) ==
    {[county |-> c, Product |-> p, complaint_count |-> n] :
        c \in counties, p \in products, n \in counts}

\* All sequences of at most n rows.
RECURSIVE TablesUpTo(_, _)
TablesUpTo(rows, n) ==
    IF n = 0 THEN {<<>>}
    ELSE LET shorter == TablesUpTo(rows, n - 1)
         IN shorter \cup {Append(t, r) : t \in shorter, r \in rows}

Mortgage == mapping[7][1]
Student_loan == <<"S","t","u","d","e","n","t"," ","l","o","a","n">>

IdleStrings == raw = <<>> /\ out = <<>>

SessionsClosed ==
    /\ widgets = [s \in Sessions |-> Closed]
    /\ session_state = [s \in Sessions |-> NoFeedback]
    /\ view = [s \in Sessions |-> NoView]
    /\ submissions = [s \in Sessions |-> <<>>]

DashboardIdle == loaded = LoadFailure /\ SessionsClosed

\* A table of three counties: two of one state, one whose name has no
\* state suffix.
SmallDf ==
    <<[county |-> CountyAX, median_income |-> 100, total_complaints |-> 2],
      [county |-> CountyBX, median_income |-> 105, total_complaints |-> 0],
      [county |-> CountyD, median_income |-> 100, total_complaints |-> 2]>>

--------------------------------------------------------------------------
(* Spec: one session choosing counties, over any county table. *)

Init ==
    /\ loaded \in {LoadFailure, LoadResult(<<>>, <<>>)} \cup
         {LoadResult(df, cfpb_df) :
            df \in {t \in TablesFrom(1, MaxRows) : t # <<>>},
            cfpb_df \in TablesUpTo(ComplaintRowsOf({CountyAX}, {Mortgage}, {1}), 1)}
    /\ SessionsClosed
    /\ IdleStrings

Next ==
    \E s \in {"s1"} :
        \/ OpenSession(s)
        \/ \E county \in CountyOptions(loaded) : SelectCounty(s, county)

Spec == Init /\ [][Next]_vars

--------------------------------------------------------------------------
(* SpecDrill: one session choosing counties, over any complaint table. *)

RawProducts ==
    {mapping[i][1] : i \in 1..Len(mapping)} \cup {Student_loan}

\* Rows of the county looked at, of every product and two counts, and rows
\* of another county.
InitDrill ==
    /\ loaded \in
         {LoadResult(SmallDf, cfpb_df) :
            cfpb_df \in TablesUpTo(
                ComplaintRowsOf({CountyAX}, RawProducts, {1, 2})
                    \cup ComplaintRowsOf({CountyD}, {Mortgage}, {2}),
                MaxComplaintRows)}
    /\ SessionsClosed
    /\ IdleStrings

SpecDrill == InitDrill /\ [][Next]_vars

--------------------------------------------------------------------------
(* SpecSavings: one session using the savings tracker. *)

\* Amounts entered: multiples of 500 dollars.
Amounts == {500 * k : k \in 0..MaxAmount}

InitSavings ==
    /\ loaded \in {LoadFailure, LoadResult(SmallDf, <<>>)}
    /\ SessionsClosed
    /\ IdleStrings

NextSavings ==
    \E s \in {"s1"} :
        \/ OpenSession(s)
        \/ \E county \in CountyOptions(loaded) : SelectCounty(s, county)
        \/ \E goal \in Amounts : SetGoal(s, goal)
        \/ \E saved \in Amounts : SetSaved(s, saved)

SpecSavings == InitSavings /\ [][NextSavings]_vars

--------------------------------------------------------------------------
(* SpecSession: several sessions opening, closing, filtering, submitting. *)

Forms ==
    {[Name |-> "", Email |-> "", Role |-> "Immigrant", Helpful |-> h, Comment |-> ""] :
        h \in {"Yes", "No"}}
Timestamps == {"2025-11-15 10:00"}

InitSession ==
    /\ loaded \in {LoadFailure, LoadResult(SmallDf, <<>>)}
    /\ SessionsClosed
    /\ IdleStrings

NextSession ==
    \E s \in Sessions :
        \/ OpenSession(s)
        \/ CloseSession(s)
        \/ \E county \in {All, CountyD} : SelectCounty(s, county)
        \/ \E hi \in {99} : SetIncomeRange(s, <<0, hi>>)
        \/ \E form \in Forms, now \in Timestamps : SubmitFeedback(s, form, now)

SpecSession == InitSession /\ [][NextSession]_vars

--------------------------------------------------------------------------
(* The two string functions on their own: raw is the input, out collects     *)
(* the results of applying the function to it, then to its own result.     *)

CategoryAlphabet == {"M", "a", " "}
CategoryInputs ==
    LET keys == {mapping[i][1] : i \in 1..Len(mapping)}
        labels == {mapping[i][2] : i \in 1..Len(mapping)}
    IN keys \cup labels
        \cup {<<" ">> \o k : k \in keys} \cup {k \o <<" ">> : k \in keys}
        \cup {Lower(k) : k \in keys}
        \cup StringsUpTo(CategoryAlphabet, MaxStrLen)

InitNorm ==
    /\ DashboardIdle
    /\ raw \in CategoryInputs
    /\ out = <<>>

\* cfpb_df["Product"].apply(shorten_category_name), and once more on the result
Normalize ==
    /\ Len(out) < 2
    /\ out' = Append(out, shorten_category_name(IF out = <<>> THEN raw ELSE out[Len(out)]))
    /\ UNCHANGED <<loaded, widgets, session_state, view, submissions, raw>>

NextNorm == Normalize

SpecNorm == InitNorm /\ [][NextNorm]_vars

Autauga == <<"A","u","t","a","u","g","a"," ","C","o","u","n","t","y",",",
             " ","A","l","a","b","a","m","a">>
CountyAlphabet == {",", " ", "A", "b", "1"}
CountyInputs == {Autauga} \cup StringsUpTo(CountyAlphabet, MaxStrLen)

InitState ==
    /\ DashboardIdle
    /\ raw \in CountyInputs
    /\ out = <<>>

\* df["state"] = df["county"].str.extract(...), for one county string
Extract ==
    /\ out = <<>>
    /\ out' = <<ExtractState(raw)>>
    /\ UNCHANGED <<loaded, widgets, session_state, view, submissions, raw>>

NextState == Extract

SpecState == InitState /\ [][NextState]_vars

--------------------------------------------------------------------------
(* Vocabulary of the properties. *)

Min(a, b) == IF a <= b THEN a ELSE b

\* Session s has a county selected and the main part of the page ran.
Selected(s) ==
    /\ widgets[s].open
    /\ loaded.df # <<>>
    /\ widgets[s].county # All

\* The selected county's row, with its state.
SelectedRow(s) == RowsOfCounty(WithState(loaded.df), widgets[s].county)[1]

InBand(r, S) ==
    /\ 100 * r.median_income >= 95 * S.median_income
    /\ 100 * r.median_income <= 105 * S.median_income

--------------------------------------------------------------------------
(* C1 *)

\* C1 as stated: the peers shown are the first 5 (or all, if fewer) of the
\* counties other than the selected one that lie in its income band and
\* whose state differs from its state, in non-decreasing order of income;
\* the selected county is never among them.
C1_AsStated ==
    \A s \in Sessions : Selected(s) =>
        LET df == WithState(loaded.df)
            S == SelectedRow(s)
            Q == {i \in 1..Len(df) :
                    /\ df[i].county # S.county
                    /\ InBand(df[i], S)
                    /\ NeState(df[i].state, S.state)}
            shown == IF view[s].peers.msg = "peers" THEN view[s].peers.table ELSE <<>>
        IN /\ view[s].peers.msg \in {"peers", "no_peers"}
           /\ Len(shown) = Min(5, Cardinality(Q))
           /\ \A k \in 1..Len(shown) : \E i \in Q :
                 /\ shown[k].county = df[i].county
                 /\ shown[k].median_income = df[i].median_income
           /\ \A k \in 1..Len(shown) : shown[k].county # S.county
           /\ \A j, k \in 1..Len(shown) :
                 /\ j < k => shown[j].median_income <= shown[k].median_income
                 /\ j # k => shown[j].county # shown[k].county
           /\ \A i \in Q :
                 (\A k \in 1..Len(shown) : shown[k].county # df[i].county)
                    => \A k \in 1..Len(shown) :
                          shown[k].median_income <= df[i].median_income

--------------------------------------------------------------------------
(* C2 *)

\* C2 as stated: every county's distress score is a number in [0, 1], also
\* when every total_complaints or every median_income is 0.
C2_AsStated ==
    \A s \in Sessions : Selected(s) =>
        LET scores == view[s].ranking.scores
        IN /\ Len(scores) = Len(loaded.df)
           /\ \A i \in 1..Len(scores) :
                 /\ ~scores[i].distress_score.nan
                 /\ scores[i].distress_score.den > 0
                 /\ 0 <= scores[i].distress_score.num
                 /\ scores[i].distress_score.num <= scores[i].distress_score.den

--------------------------------------------------------------------------
(* C3 *)

\* C3 as stated, for a ranking that is shown: the table holds the counties
\* of the selected county's state by descending score, each ranked by the
\* average of the places its score takes; with no equal scores the ranks
\* are 1..N; and the rank reported for the selected county is its rank in
\* the table.
C3_AsStated ==
    \A s \in Sessions : (Selected(s) /\ view[s].ranking.msg = "rank") =>
        LET t == view[s].ranking.table
            N == Len(t)
            S == SelectedRow(s)
            df == WithState(loaded.df)
            Score(i) == t[i].distress_score.num
            NoTies == \A i, j \in 1..N : i # j => Score(i) # Score(j)
        IN /\ {t[i].county : i \in 1..N}
                = {df[i].county : i \in {k \in 1..Len(df) : df[k].state = S.state}}
           /\ \A i, j \in 1..N : i < j => Score(i) >= Score(j)
           /\ \A i \in 1..N :
                 t[i].rank.num =
                    2 * Cardinality({j \in 1..N : Score(j) > Score(i)})
                    + Cardinality({j \in 1..N : Score(j) = Score(i)}) + 1
           /\ NoTies => \A i \in 1..N : t[i].rank.num = 2 * i
           /\ \E i \in 1..N :
                 /\ t[i].county = widgets[s].county
                 /\ t[i].rank.num = 2 * view[s].ranking.selected_rank

--------------------------------------------------------------------------
(* C4 *)

\* C4 as stated: when load_data fails, the pass reports the error once and
\* produces nothing after it.
C4_AsStated ==
    \A s \in Sessions : (widgets[s].open /\ ~loaded.ok) =>
        /\ Cardinality({i \in 1..Len(view[s].panels) :
                            view[s].panels[i] = "load_error"}) = 1
        /\ view[s].panels[Len(view[s].panels)] = "load_error"

--------------------------------------------------------------------------
(* C5 *)

\* C5 as stated: with a county selected whose name gives no state, the pass
\* does not fail: the peer search and the ranking end with something to
\* report, and the panels after them are produced.
C5_AsStated ==
    \A s \in Sessions : (Selected(s) /\ SelectedRow(s).state = NaN) =>
        /\ view[s].raised = "none"
        /\ view[s].peers.msg \in {"peers", "no_peers"}
        /\ view[s].ranking.msg # "raised"
        /\ Shows(view[s], "savings")
        /\ Shows(view[s], "feedback_form")

--------------------------------------------------------------------------
(* C6 *)

Debt_collection == mapping[6][1]
Credit_card == mapping[3][1]
Checking_or_savings_account == mapping[2][1]
Credit_reporting == mapping[5][1]

\* The tip a lower-cased label calls for: the first key it contains.
ExpectedAdvice(low) ==
    LET keys == <<debt_collection, mortgage, credit_card, checking, credit_report>>
        advice == <<"credit_counselor", "mortgage_relief", "review_statements",
                    "compare_fees", "check_credit_report">>
        found == {i \in 1..5 : Contains(keys[i], low)}
    IN IF found = {} THEN "financial_education"
       ELSE advice[CHOOSE i \in found : \A j \in found : i <= j]

--------------------------------------------------------------------------
(* C7 *)

IsKey(name) == \E i \in 1..Len(mapping) : mapping[i][1] = name
LabelOf(name) == mapping[CHOOSE i \in 1..Len(mapping) : mapping[i][1] = name][2]

\* C7 as stated: a table key gives its short label, any other string comes
\* back with its surrounding whitespace trimmed, and a second application
\* changes nothing.
C7_AsStated ==
    /\ Len(out) >= 1 =>
        out[1] = (IF IsKey(raw) THEN LabelOf(raw) ELSE Strip(raw))
    /\ Len(out) = 2 => out[2] = out[1]

\* C7, amended: a table key gives its short label, any other string comes
\* back unchanged (not trimmed), and a second application changes nothing.
C7_Normalizer ==
    /\ Len(out) >= 1 =>
        out[1] = (IF IsKey(raw) THEN LabelOf(raw) ELSE raw)
    /\ Len(out) = 2 => out[2] = out[1]

\* A key with a space before or after it has gone through twice and came
\* back as it was.
C7_Witness ==
    /\ Len(out) = 2
    /\ ~IsKey(raw)
    /\ Strip(raw) # raw
    /\ IsKey(Strip(raw))
    /\ out[2] = raw

--------------------------------------------------------------------------
(* C8 *)

\* C8: where the savings tracker is shown, progress is 0 for a goal of 0 and
\* min(saved / goal, 1) otherwise, so it lies in [0, 1]; goal 5000 with
\* saved 1000 reads 20.0%; and the congratulation is shown exactly when
\* goal > 0 and saved >= goal.
C8_SavingsProgress ==
    \A s \in Sessions : (widgets[s].open /\ Shows(view[s], "savings")) =>
        LET goal == widgets[s].goal
            saved == widgets[s].saved
            p == view[s].savings.progress
        IN /\ p.den > 0
           /\ goal = 0 => p.num = 0
           /\ goal > 0 => p.num * goal = p.den * Min(saved, goal)
           /\ 0 <= p.num /\ p.num <= p.den
           /\ (goal = 5000 /\ saved = 1000) => view[s].savings.text_tenths = 200
           /\ view[s].savings.congratulations <=> (goal > 0 /\ saved >= goal)

\* A goal of 0 with 500 saved is on the page, at 0%.
C8_Witness ==
    \E s \in Sessions :
        /\ widgets[s].open
        /\ Shows(view[s], "savings")
        /\ widgets[s].goal = 0
        /\ widgets[s].saved = 500
        /\ view[s].savings.progress.num = 0
        /\ view[s].savings.text_tenths = 0
        /\ ~view[s].savings.congratulations

--------------------------------------------------------------------------
(* C9 *)

LastComma(s) ==
    LET cs == {i \in 1..Len(s) : s[i] = ","}
    IN IF cs = {} THEN 0 ELSE CHOOSE a \in cs : \A b \in cs : a >= b
AfterLastComma(s) == SubSeq(s, LastComma(s) + 1, Len(s))

\* C9 as stated: the state is the text after the last comma with leading
\* and trailing whitespace trimmed; no comma, or nothing after it, or a
\* character there that is neither a letter nor a space, gives an absent
\* state.  (Text after the comma that is all spaces is left open.)
C9_AsStated ==
    (Len(out) = 1 /\ ~(LastComma(raw) > 0 /\ AfterLastComma(raw) # <<>>
                       /\ Strip(AfterLastComma(raw)) = <<>>)) =>
        out[1] = (IF \/ LastComma(raw) = 0
                     \/ AfterLastComma(raw) = <<>>
                     \/ \E k \in 1..Len(AfterLastComma(raw)) :
                           ~(IsLetter(AfterLastComma(raw)[k])
                             \/ AfterLastComma(raw)[k] = " ")
                  THEN NaN
                  ELSE Strip(AfterLastComma(raw)))

--------------------------------------------------------------------------
(* C10 *)

\* C10: in every session the feedback list holds exactly the records its
\* user has submitted, one each, in the order submitted; a session with no
\* submission has no list, and so does a session not open.
C10_FeedbackList ==
    \A s \in Sessions :
        /\ session_state[s].has_feedback => session_state[s].feedback = submissions[s]
        /\ ~session_state[s].has_feedback =>
              (submissions[s] = <<>> /\ session_state[s].feedback = <<>>)
        /\ ~widgets[s].open => ~session_state[s].has_feedback

\* One session has taken two different submissions and then selected the
\* county whose pass ends in an exception; another session is open and has
\* taken a submission of its own.
C10_Witness ==
    \E s, t \in Sessions :
        /\ s # t
        /\ Len(session_state[s].feedback) = 2
        /\ session_state[s].feedback[1] # session_state[s].feedback[2]
        /\ widgets[s].county = CountyD
        /\ view[s].raised # "none"
        /\ widgets[t].open
        /\ Len(session_state[t].feedback) = 1
        /\ session_state[t].feedback[1] = session_state[s].feedback[2]

====
